---------------------------- MODULE Spec2Model ----------------------------
(***************************************************************************)
(* PipelineMonitorJob.run_job (aind_codeocean_pipeline_monitor/job.py):    *)
(* submit a pipeline run, wait for it under a tenacity retry policy,       *)
(* optionally capture the result as a data asset (name resolution, asset   *)
(* creation, wait under the same retry policy, permissions).               *)
(*                                                                         *)
(* A string is modelled as the sequence of its "_"-separated fields, so    *)
(* that "a_b" is <<"a","b">>, the empty string is <<"">>, and the f-string *)
(* f"{x}_{y}" is the concatenation of the two sequences.                   *)
(***************************************************************************)
EXTENDS Integers, Sequences, FiniteSets, TLC

VARIABLES
    job_settings,               \* self.job_settings (run_params, capture_settings)
    pc,                         \* position of the run inside run_job
    calls,                      \* the remote calls issued so far with their answers, in order
    attempt_number,             \* tenacity RetryCallState.attempt_number of the call in progress
    idle_for,                   \* tenacity RetryCallState.idle_for of the call in progress
    start_pipeline_response,    \* run_job local
    monitor_pipeline_response,  \* run_job local
    input_data_name,            \* _get_name local
    default_name,               \* _get_name local
    dd_name,                    \* data_description.get("name") as downloaded
    data_asset_params,          \* run_job local: the create request
    capture_result_response,    \* run_job local
    wait_for_data_asset,        \* run_job local
    raised,                     \* the exception that left run_job
    first_build,                \* outcome of an earlier _build_data_asset_params call, if kept
    runs,                       \* per job object: position and polls of its run_job
    retry_states                \* tenacity: the RetryCallState of each call in progress

vars == <<job_settings, pc, calls, attempt_number, idle_for,
          start_pipeline_response, monitor_pipeline_response, input_data_name,
          default_name, dd_name, data_asset_params, capture_result_response,
          wait_for_data_asset, raised, first_build, runs, retry_states>>

-----------------------------------------------------------------------------
(* Values *)

\* Python's None: the empty sequence, which no string of the model is (a
\* string has at least one field).
None == <<>>

\* str(x) inside an f-string: None is rendered as the text "None".
Format(x) == IF x = None THEN <<"None">> ELSE x

Exc(type, status) == [type |-> type, status |-> status]

NoExc == Exc("NoExc", 0)

\* HTTP status of the rate-limit signal.
TooManyStatus == 429

TooManyRequests == Exc("TooManyRequests", 0)

RetryError == Exc("RetryError", 0)

PipelineRunFailed == Exc("Exception: The pipeline run failed", 0)

DataAssetCreationFailed == Exc("Exception: Data asset creation failed", 0)

UnableToConstructName == Exc("Exception: Unable to construct data asset name.", 0)

TypeError == Exc("TypeError", 0)

\* What a call on the client can raise: an HTTPError carrying a response
\* status, or an error that is no HTTPError.
RemoteErrors ==
    {Exc("HTTPError", TooManyStatus), Exc("HTTPError", 500),
     Exc("ConnectionError", 0)}

\* ComputationState / DataAssetState values the blocking waits of the SDK
\* return: they return once the resource is in a final state.
ComputationFinalStates == {"completed", "failed"}

DataAssetFinalStates == {"ready", "failed"}


-----------------------------------------------------------------------------
(* The retry policy of the two polling calls (tenacity decorator) *)

\* stop_after_attempt(7)
MaxAttempts == 7

\* wait_exponential(multiplier=1, min=8, max=32)
Multiplier == 1

MinWait == 8

MaxWait == 32

\* wait_random(0, 5): 0 + random() * 5 with random() in [0, 1), so the jitter
\* is below 5 seconds.
JitterMax == 5

\* Time is counted in ticks, TicksPerSecond of them to the second.
TicksPerSecond == 10

\* The values of wait_random(0, 5) = random() * 5 that are followed, in
\* ticks: every JitterStep-th tick of [0, 5 s), and the last tick below 5 s.
JitterStep == 30

Jitter ==
    {j \in 0 .. (JitterMax * TicksPerSecond - 1) :
        j % JitterStep = 0 \/ j = JitterMax * TicksPerSecond - 1}

Min(a, b) == IF a <= b THEN a ELSE b

Max(a, b) == IF a >= b THEN a ELSE b

\* retry_if_exception_type(TooManyRequests): is this outcome retried?
retry_if_exception_type_any_http(exc) ==
    exc = TooManyRequests \/ exc.type = "HTTPError"

retry_if_exception_type(exc) == exc = TooManyRequests

stop_after_attempt_off_by_one(n) == n >= MaxAttempts + 1

\* stop_after_attempt(7): stop once the attempt just made is the 7th.
stop_after_attempt(n) == n >= MaxAttempts

wait_exponential_uncapped(n) == MinWait * (2 ^ (n - 1))

wait_exponential_no_floor(n) == Min(Multiplier * (2 ^ (n - 1)), MaxWait)

\* wait_exponential.__call__: multiplier * 2 ** (attempt_number - 1), clamped
\* into [min, max]; n is the number of the attempt that just failed.
wait_exponential(n) ==
    Max(Max(0, MinWait), Min(Multiplier * (2 ^ (n - 1)), MaxWait))

\* wait_exponential(...) + wait_random(0, 5): the sleep after attempt n, in
\* ticks, when wait_random gives jitter ticks.
sleep_for(n, jitter) == wait_exponential(n) * TicksPerSecond + jitter

\* What the retry loop does with the outcome of attempt n of the wrapped
\* function: hand back a result, re-raise an exception the predicate does
\* not select, give up with RetryError, or sleep and try again.
RetryDecision(outcome, n) ==
    IF outcome.exc = NoExc THEN "return"
    ELSE IF ~retry_if_exception_type(outcome.exc) THEN "reraise"
    ELSE IF stop_after_attempt(n) THEN "retry_error"
    ELSE "sleep"

\* An outcome of a function body: a returned value or a raised exception.
Return(v) == [ret |-> v, exc |-> NoExc]

Raise(e) == [ret |-> None, exc |-> e]

\* except HTTPError as err: 429 becomes TooManyRequests, anything else is
\* re-raised; an exception that is no HTTPError is not caught at all.
TranslateHTTPError(e) ==
    IF e.type = "HTTPError" /\ e.status = TooManyStatus
        THEN TooManyRequests
        ELSE e

monitor_pipeline_body_no_failed_check(resp) ==
    IF resp.exc # NoExc THEN Raise(TranslateHTTPError(resp.exc))
    ELSE Return(resp.ret)

monitor_pipeline_body_failed_retried(resp) ==
    IF resp.exc # NoExc THEN Raise(TranslateHTTPError(resp.exc))
    ELSE IF resp.ret.state = "failed" THEN Raise(TooManyRequests)
    ELSE Return(resp.ret)

\* One execution of the body of _monitor_pipeline on the response of
\* client.computations.wait_until_completed.
monitor_pipeline_body(resp) ==
    IF resp.exc # NoExc THEN Raise(TranslateHTTPError(resp.exc))
    ELSE IF resp.ret.state = "failed" THEN Raise(PipelineRunFailed)
    ELSE Return(resp.ret)

wait_for_data_asset_body_no_failed_check(resp) ==
    IF resp.exc # NoExc THEN Raise(TranslateHTTPError(resp.exc))
    ELSE Return(resp.ret)

\* One execution of the body of _wait_for_data_asset on the response of
\* client.data_assets.wait_until_ready.
wait_for_data_asset_body(resp) ==
    IF resp.exc # NoExc THEN Raise(TranslateHTTPError(resp.exc))
    ELSE IF resp.ret.state = "failed" THEN Raise(DataAssetCreationFailed)
    ELSE Return(resp.ret)

-----------------------------------------------------------------------------
(* Names *)

\* Fields matching \d{4}-\d{2}-\d{2} and \d{2}-\d{2}-\d{2}.
DateFields == {"2024-01-01", "2024-01-02"}

TimeFields == {"10-00-00", "11-00-00"}

\* A field that begins with a time and goes on after it.
TimePrefixedFields == {"11-00-00abc"}

IsDate(f) == f \in DateFields

IsTime(f) == f \in TimeFields

StartsWithTime(f) == f \in TimeFields \cup TimePrefixedFields

\* ".+?" between two "_" (or from the start to a "_"): the fields a..b hold
\* at least one character, the "_" between two fields counting as one.
NonEmptySpan(s, a, b) == b > a \/ (b = a /\ s[a] # "")

\* re.match(DataRegex.DERIVED.value, s) is not None, with DERIVED
\*   ^(?P<input>.+?_DATE_TIME)_(?P<process_name>.+?)_(?P<c_date>DATE)_(?P<c_time>TIME)
\* The pattern is anchored at the start only.
re_match_DERIVED(s) ==
    \E i \in 1 .. Len(s), j \in 1 .. Len(s) :
        /\ NonEmptySpan(s, 1, i)
        /\ i + 3 <= j /\ j + 2 <= Len(s)
        /\ IsDate(s[i + 1]) /\ IsTime(s[i + 2])
        /\ NonEmptySpan(s, i + 3, j)
        /\ IsDate(s[j + 1]) /\ StartsWithTime(s[j + 2])

\* A JSON "name" that is no string (a number): re.match raises TypeError on it.
NonString == <<"~int">>

\* The instants datetime.now(tz=UTC) may show.
Clock == {"2024-01-01T10:00:00Z", "2024-01-02T11:00:00Z"}

\* dt.strftime("%Y-%m-%d_%H-%M-%S")
strftime(dt) ==
    IF dt = "2024-01-01T10:00:00Z" THEN <<"2024-01-01", "10-00-00">>
    ELSE <<"2024-01-02", "11-00-00">>

\* f"{input_data_name}_{suffix}_{dt_suffix}"
DefaultName(input, suffix, dt) == Format(input) \o Format(suffix) \o strftime(dt)

get_name_decide_keep_mismatch(from_file, input, default) ==
    IF from_file = NonString THEN Raise(TypeError)
    ELSE IF from_file = None /\ input = None THEN Raise(UnableToConstructName)
    ELSE IF from_file # None THEN Return(from_file)
    ELSE Return(default)

get_name_decide_no_input_check(from_file, input, default) ==
    IF from_file = NonString THEN Raise(TypeError)
    ELSE LET name_from_file ==
                IF from_file # None /\ ~re_match_DERIVED(from_file)
                    THEN None ELSE from_file
         IN  IF name_from_file # None THEN Return(name_from_file)
             ELSE Return(default)

\* _get_name, from the pattern check to its end: the name read from the
\* descriptor file is dropped when it does not match; with no name from the
\* file and no input data name the function raises, else the name from the
\* file wins over the default name.
get_name_decide(from_file, input, default) ==
    IF from_file = NonString THEN Raise(TypeError)
    ELSE LET name_from_file ==
                IF from_file # None /\ ~re_match_DERIVED(from_file)
                    THEN None ELSE from_file
         IN  IF name_from_file = None /\ input = None
                 THEN Raise(UnableToConstructName)
             ELSE IF name_from_file # None THEN Return(name_from_file)
             ELSE Return(default)

-----------------------------------------------------------------------------
(* Settings and the remote service *)

\* Most input data assets a run request references in the model.
MaxInputAssets == 2

\* run_params.data_assets: n references, the first one carrying the id n.
InputAssetLists ==
    {[k \in 1 .. n |-> [id |-> n - k + 1]] : n \in 0 .. MaxInputAssets}

\* The name the service holds for the data asset with this id.
RemoteAssetName(id) ==
    IF id = 1 THEN <<"raw-ecephys">>
    ELSE <<"ecephys", "2024-01-01", "10-00-00">>

ExplicitNames == {None, <<"">>, <<"run-42">>}

Mounts == {None, <<"mnt">>}

\* capture_settings.target: None, or an AWS S3 target with its own prefix.
Target(is_set) ==
    IF is_set
        THEN [aws |-> [bucket |-> "my-bucket", prefix |-> <<"user", "prefix">>]]
        ELSE None

Suffixes == {<<"processed">>, None}

\* The capture settings job.py is written for: an object with the attributes
\* job.py reads from job_settings.capture_settings (name, mount, target,
\* process_name_suffix, data_description_file_name, permissions and the
\* pass-through fields); the fields the job only passes through carry one
\* value each.  models.py declares no class of this shape.
CaptureSettings(name, mount, target, suffix) ==
    [name |-> name, mount |-> mount, target |-> target,
     process_name_suffix |-> suffix,
     description |-> "some data", tags |-> <<"derived">>,
     custom_metadata |-> "data level: derived", results_info |-> None,
     permissions |-> "everyone: viewer",
     data_description_file_name |-> "data_description.json"]

\* The job settings job.py is written for: an object with the attributes
\* run_params and capture_settings.  models.py declares no class of this
\* shape.
Settings(data_assets, capture_settings) ==
    [run_params |-> [data_assets |-> data_assets],
     capture_settings |-> capture_settings]

\* models.CapturedDataAssetParams: the fields of DataAssetParams with name,
\* mount and source optional, and the additional fields of the class.
CapturedDataAssetParams(name, mount, target, suffix) ==
    [name |-> name, mount |-> mount, source |-> None, target |-> target,
     description |-> "some data", tags |-> <<"derived">>,
     custom_metadata |-> "data level: derived", results_info |-> None,
     input_data_name |-> None,
     process_name_suffix |-> suffix,
     process_name_suffix_tz |-> "UTC",
     data_description_location |-> "/results/data_description.json",
     permissions |-> "everyone: viewer"]

\* models.PipelineMonitorSettings: run_params and captured_data_asset_params.
PipelineMonitorSettings(data_assets, captured_data_asset_params) ==
    [run_params |-> [data_assets |-> data_assets],
     captured_data_asset_params |-> captured_data_asset_params]

\* obj.attr of Python: the value of the attribute, AttributeError when the
\* object has none of that name.
HasAttr(obj, attr) == attr \in DOMAIN obj

AttributeError == Exc("AttributeError", 0)

\* The id the service gives the computation it starts.
ComputationId == "comp-1"

\* The id the service gives the data asset it creates.
DataAssetId == "asset-1"

\* What data_description.get("name") can be: absent or null, a number, or a
\* string (two matching the derived pattern, three not matching it).
DescriptorNames ==
    {None, NonString,
     <<"ecephys", "2024-01-01", "10-00-00", "sorted", "2024-01-02", "11-00-00">>,
     <<"ecephys", "2024-01-01", "10-00-00", "sorted", "2024-01-02", "11-00-00abc", "v2">>,
     <<"not", "matching", "pattern">>,
     <<"ecephys", "2024-01-01", "10-00-00">>,
     <<"">>}

\* What the download of the descriptor file delivers: the URL cannot be
\* opened, or the body is read: bytes that are not UTF-8, text that is not
\* JSON, a JSON document that is no object (null, a list), or an object
\* whose "name" is one of DescriptorNames (None when it has no such key).
DescriptorDownloads ==
    {[kind |-> k, name |-> None] :
        k \in {"unreachable", "not-utf8", "not-json", "null", "list"}}
    \cup {[kind |-> "object", name |-> n] : n \in DescriptorNames}

\* with urlopen(url) as f: contents = f.read().decode("utf-8");
\* data_description = json.loads(contents); data_description.get("name")
read_data_description(download) ==
    CASE download.kind = "unreachable" -> Raise(Exc("URLError", 0))
      [] download.kind = "not-utf8" -> Raise(Exc("UnicodeDecodeError", 0))
      [] download.kind = "not-json" -> Raise(Exc("JSONDecodeError", 0))
      [] download.kind \in {"null", "list"} -> Raise(AttributeError)
      [] download.kind = "object" -> Return(download.name)

\* Is a capture requested?  (self.job_settings.capture_settings is not None)
capture_requested(settings) == settings.capture_settings # None

build_data_asset_params_keep_prefix(data_asset_name, settings, computation) ==
    LET cs == settings.capture_settings
    IN  [name |-> data_asset_name,
         description |-> cs.description,
         mount |-> IF cs.mount # None THEN cs.mount ELSE data_asset_name,
         tags |-> cs.tags,
         source |-> [computation |-> [id |-> computation.id]],
         target |-> cs.target,
         custom_metadata |-> cs.custom_metadata,
         results_info |-> cs.results_info]

\* _build_data_asset_params once the name is known: the DataAssetParams.
build_data_asset_params(data_asset_name, settings, computation) ==
    LET cs == settings.capture_settings
    IN  [name |-> data_asset_name,
         description |-> cs.description,
         mount |-> IF cs.mount # None THEN cs.mount ELSE data_asset_name,
         tags |-> cs.tags,
         source |-> [computation |-> [id |-> computation.id]],
         target |-> IF cs.target # None
                        THEN [aws |-> [bucket |-> cs.target.aws.bucket,
                                       prefix |-> data_asset_name]]
                        ELSE None,
         custom_metadata |-> cs.custom_metadata,
         results_info |-> cs.results_info]

uses_explicit_name_never(settings) == FALSE

\* _build_data_asset_params, first branch: is the name of the settings used?
uses_explicit_name(settings) == settings.capture_settings.name # None

\* Where the retry loop of a polling call sleeps.
SleepAfter(call) ==
    IF call = "wait_until_completed" THEN "monitor_sleep" ELSE "wait_sleep"

retry_resumes_at_wide(step) ==
    IF step = "wait_until_ready" THEN "create_data_asset" ELSE "run_capsule"

\* Where a retry resumes: the decorated function holds the polling call only.
retry_resumes_at(step) == step

-----------------------------------------------------------------------------
(* run_job *)

\* The job object after __init__.  Its settings are an object of the shape
\* job.py reads, or a models.PipelineMonitorSettings, or an object with the
\* attribute capture_settings holding a models.CapturedDataAssetParams.
Init ==
    /\ \E data_assets \in InputAssetLists :
        \/ job_settings = Settings(data_assets, None)
        \/ \E name \in ExplicitNames, mount \in Mounts,
              target_set \in BOOLEAN, suffix \in Suffixes :
                job_settings =
                    Settings(data_assets,
                             CaptureSettings(name, mount, Target(target_set), suffix))
        \/ job_settings = PipelineMonitorSettings(data_assets, None)
        \/ \E name \in {None, <<"run-42">>} :
            \/ job_settings =
                    PipelineMonitorSettings(
                        data_assets,
                        CapturedDataAssetParams(name, None, Target(FALSE),
                                                <<"processed">>))
            \/ job_settings =
                    Settings(
                        data_assets,
                        CapturedDataAssetParams(name, None, Target(FALSE),
                                                <<"processed">>))
    /\ pc = "run_capsule"
    /\ calls = <<>>
    /\ attempt_number = 0
    /\ idle_for = 0
    /\ start_pipeline_response = None
    /\ monitor_pipeline_response = None
    /\ input_data_name = None
    /\ default_name = None
    /\ dd_name = None
    /\ data_asset_params = None
    /\ capture_result_response = None
    /\ wait_for_data_asset = None
    /\ raised = NoExc
    /\ first_build = None
    /\ runs = <<>>
    /\ retry_states = <<>>

\* An exception leaves run_job: nothing after the raising statement runs.
Abort(e) ==
    /\ pc' = "raised"
    /\ raised' = e
    /\ attempt_number' = 0
    /\ idle_for' = 0

\* The state a resource is reported in by an answer, "" when the answer
\* reports none.
ReportedState(call, resp) ==
    IF resp.exc = NoExc /\ call \in {"wait_until_completed", "wait_until_ready"}
        THEN resp.ret.state
        ELSE ""

\* A remote call is issued and answers resp: the log keeps the call, the
\* exception it raised and the state it reported.
Issue(call, resp) ==
    calls' = Append(calls, [call |-> call, exc |-> resp.exc,
                            state |-> ReportedState(call, resp)])

\* How a call on the client ends: it returns, or raises one of RemoteErrors.
Endings == {NoExc} \cup RemoteErrors

\* The answer of a call that ends this way and returns v when it succeeds.
Answer(ending, v) == IF ending = NoExc THEN Return(v) ELSE Raise(ending)

\* start_pipeline_response = self.client.computations.run_capsule(run_params);
\* on return, _monitor_pipeline is entered with a fresh retry state.
RunCapsule ==
    /\ pc = "run_capsule"
    /\ \E ending \in Endings :
        LET resp == Answer(ending, [id |-> ComputationId, state |-> "running"])
        IN
        /\ Issue("run_capsule", resp)
        /\ IF resp.exc = NoExc
              THEN /\ start_pipeline_response' = resp.ret
                   /\ pc' = "wait_until_completed"
                   /\ attempt_number' = 1
                   /\ idle_for' = 0
                   /\ raised' = raised
              ELSE /\ Abort(resp.exc)
                   /\ start_pipeline_response' = start_pipeline_response
    /\ UNCHANGED <<first_build, runs, retry_states,
                   job_settings, monitor_pipeline_response, input_data_name,
                   default_name, dd_name, data_asset_params,
                   capture_result_response, wait_for_data_asset>>

\* One attempt of _monitor_pipeline and what the retry loop makes of it.
MonitorPipeline ==
    /\ pc = "wait_until_completed"
    /\ \E ending \in Endings, st \in ComputationFinalStates :
        LET resp == Answer(ending, [id |-> start_pipeline_response.id, state |-> st])
            out == monitor_pipeline_body(resp)
            decision == RetryDecision(out, attempt_number)
        IN  /\ Issue("wait_until_completed", resp)
            /\ CASE decision = "return" ->
                    /\ monitor_pipeline_response' = out.ret
                    /\ IF HasAttr(job_settings, "capture_settings")
                          THEN /\ pc' = IF capture_requested(job_settings)
                                          THEN "build_data_asset_params"
                                          ELSE "finished"
                               /\ attempt_number' = 0
                               /\ idle_for' = 0
                               /\ raised' = raised
                          ELSE Abort(AttributeError)
                 [] decision = "reraise" ->
                    /\ Abort(out.exc)
                    /\ monitor_pipeline_response' = monitor_pipeline_response
                 [] decision = "retry_error" ->
                    /\ Abort(RetryError)
                    /\ monitor_pipeline_response' = monitor_pipeline_response
                 [] decision = "sleep" ->
                    /\ pc' = "monitor_sleep"
                    /\ UNCHANGED <<monitor_pipeline_response, attempt_number,
                                   idle_for, raised>>
    /\ UNCHANGED <<first_build, runs, retry_states,
                   job_settings, start_pipeline_response, input_data_name,
                   default_name, dd_name, data_asset_params,
                   capture_result_response, wait_for_data_asset>>

\* The sleep between two attempts of _monitor_pipeline:
\* wait_exponential(...) + wait_random(0, 5) of the attempt that failed.
MonitorSleep ==
    /\ pc = "monitor_sleep"
    /\ \E jitter \in Jitter :
        idle_for' = idle_for + sleep_for(attempt_number, jitter)
    /\ attempt_number' = attempt_number + 1
    /\ pc' = retry_resumes_at("wait_until_completed")
    /\ UNCHANGED <<first_build, runs, retry_states,
                   job_settings, calls, start_pipeline_response,
                   monitor_pipeline_response, input_data_name, default_name,
                   dd_name, data_asset_params, capture_result_response,
                   wait_for_data_asset, raised>>

\* _build_data_asset_params, entry: the name of the settings when there is
\* one, else _get_name is called.
BuildDataAssetParams ==
    /\ pc = "build_data_asset_params"
    /\ IF uses_explicit_name(job_settings)
          THEN /\ data_asset_params' =
                      build_data_asset_params(job_settings.capture_settings.name,
                                              job_settings, monitor_pipeline_response)
               /\ pc' = "create_data_asset"
          ELSE /\ data_asset_params' = data_asset_params
               /\ pc' = "get_input_data_name"
    /\ UNCHANGED <<first_build, runs, retry_states,
                   job_settings, calls, attempt_number, idle_for,
                   start_pipeline_response, monitor_pipeline_response,
                   input_data_name, default_name, dd_name,
                   capture_result_response, wait_for_data_asset, raised>>

\* _get_name up to default_name: the clock is read, _get_input_data_name
\* looks up the first input data asset (no call when there is none).
GetInputDataName ==
    /\ pc = "get_input_data_name"
    /\ \E dt \in Clock :
        LET input_data_assets == job_settings.run_params.data_assets
            suffix == job_settings.capture_settings.process_name_suffix
        IN  IF input_data_assets # <<>>
              THEN \E ending \in Endings :
                    LET resp == Answer(ending,
                                       [name |-> RemoteAssetName(input_data_assets[1].id)])
                    IN
                    /\ Issue("get_data_asset", resp)
                    /\ IF resp.exc = NoExc
                          THEN /\ input_data_name' = resp.ret.name
                               /\ default_name' = DefaultName(resp.ret.name, suffix, dt)
                               /\ pc' = "list_computation_results"
                               /\ UNCHANGED <<attempt_number, idle_for, raised>>
                          ELSE /\ Abort(resp.exc)
                               /\ UNCHANGED <<input_data_name, default_name>>
              ELSE /\ input_data_name' = None
                   /\ default_name' = DefaultName(None, suffix, dt)
                   /\ pc' = "list_computation_results"
                   /\ UNCHANGED <<calls, attempt_number, idle_for, raised>>
    /\ UNCHANGED <<first_build, runs, retry_states,
                   job_settings, start_pipeline_response,
                   monitor_pipeline_response, dd_name, data_asset_params,
                   capture_result_response, wait_for_data_asset>>

\* _get_name from the pattern check on, then the rest of
\* _build_data_asset_params with the name it returned.
FinishGetName(from_file) ==
    LET out == get_name_decide(from_file, input_data_name, default_name)
    IN  IF out.exc = NoExc
          THEN /\ data_asset_params' =
                      build_data_asset_params(out.ret, job_settings,
                                              monitor_pipeline_response)
               /\ pc' = "create_data_asset"
               /\ UNCHANGED <<attempt_number, idle_for, raised>>
          ELSE /\ Abort(out.exc)
               /\ data_asset_params' = data_asset_params

\* The result files the service lists: with or without the descriptor file.
ResultListings ==
    {[items |-> <<[path |-> "output.txt"], [path |-> "data_description.json"]>>],
     [items |-> <<[path |-> "output.txt"]>>]}

Paths(listing) == {listing.items[k].path : k \in 1 .. Len(listing.items)}

\* _get_name_from_data_description: list_computation_results and the test
\* for the descriptor file; without the file the name from it is None.
ListComputationResults ==
    /\ pc = "list_computation_results"
    /\ IF ~HasAttr(job_settings.capture_settings, "data_description_file_name")
          THEN /\ Abort(AttributeError)
               /\ UNCHANGED <<calls, data_asset_params>>
          ELSE \E ending \in Endings, listing \in ResultListings :
                LET resp == Answer(ending, listing)
                    dd_file_name ==
                        job_settings.capture_settings.data_description_file_name
                IN
                /\ Issue("list_computation_results", resp)
                /\ IF resp.exc # NoExc
                      THEN /\ Abort(resp.exc)
                           /\ data_asset_params' = data_asset_params
                      ELSE IF dd_file_name \in Paths(resp.ret)
                      THEN /\ pc' = "get_result_file_download_url"
                           /\ UNCHANGED <<data_asset_params, attempt_number,
                                          idle_for, raised>>
                      ELSE FinishGetName(None)
    /\ UNCHANGED <<first_build, runs, retry_states,
                   job_settings, start_pipeline_response,
                   monitor_pipeline_response, input_data_name, default_name,
                   dd_name, capture_result_response, wait_for_data_asset>>

\* self.client.computations.get_result_file_download_url(...)
GetResultFileDownloadUrl ==
    /\ pc = "get_result_file_download_url"
    /\ \E ending \in Endings :
        LET resp == Answer(ending, [url |-> "https://download"])
        IN
        /\ Issue("get_result_file_download_url", resp)
        /\ IF resp.exc = NoExc
              THEN /\ pc' = "urlopen"
                   /\ UNCHANGED <<attempt_number, idle_for, raised>>
              ELSE Abort(resp.exc)
    /\ UNCHANGED <<first_build, runs, retry_states,
                   job_settings, start_pipeline_response,
                   monitor_pipeline_response, input_data_name, default_name,
                   dd_name, data_asset_params, capture_result_response,
                   wait_for_data_asset>>

\* urlopen(download_url.url), json.loads and data_description.get("name"),
\* then the rest of _get_name.
DownloadDataDescription ==
    /\ pc = "urlopen"
    /\ \E download \in DescriptorDownloads :
        LET resp == read_data_description(download)
        IN
        /\ Issue("urlopen", resp)
        /\ IF resp.exc = NoExc
              THEN /\ dd_name' = resp.ret
                   /\ FinishGetName(resp.ret)
              ELSE /\ Abort(resp.exc)
                   /\ UNCHANGED <<dd_name, data_asset_params>>
    /\ UNCHANGED <<first_build, runs, retry_states,
                   job_settings, start_pipeline_response,
                   monitor_pipeline_response, input_data_name, default_name,
                   capture_result_response, wait_for_data_asset>>

\* capture_result_response = self.client.data_assets.create_data_asset(...);
\* on return, _wait_for_data_asset is entered with a fresh retry state.
CreateDataAsset ==
    /\ pc = "create_data_asset"
    /\ \E ending \in Endings :
        LET resp == Answer(ending, [id |-> DataAssetId, state |-> "pending"])
        IN
        /\ Issue("create_data_asset", resp)
        /\ IF resp.exc = NoExc
              THEN /\ capture_result_response' = resp.ret
                   /\ pc' = "wait_until_ready"
                   /\ attempt_number' = 1
                   /\ idle_for' = 0
                   /\ raised' = raised
              ELSE /\ Abort(resp.exc)
                   /\ capture_result_response' = capture_result_response
    /\ input_data_name' = None
    /\ default_name' = None
    /\ dd_name' = None
    /\ UNCHANGED <<first_build, runs, retry_states,
                   job_settings, start_pipeline_response,
                   monitor_pipeline_response, data_asset_params,
                   wait_for_data_asset>>

\* One attempt of _wait_for_data_asset and what the retry loop makes of it.
WaitForDataAsset ==
    /\ pc = "wait_until_ready"
    /\ \E ending \in Endings, st \in DataAssetFinalStates :
        LET resp == Answer(ending, [id |-> capture_result_response.id, state |-> st])
            out == wait_for_data_asset_body(resp)
            decision == RetryDecision(out, attempt_number)
        IN  /\ Issue("wait_until_ready", resp)
            /\ CASE decision = "return" ->
                    /\ wait_for_data_asset' = out.ret
                    /\ pc' = "update_permissions"
                    /\ attempt_number' = 0
                    /\ idle_for' = 0
                    /\ raised' = raised
                 [] decision = "reraise" ->
                    /\ Abort(out.exc)
                    /\ wait_for_data_asset' = wait_for_data_asset
                 [] decision = "retry_error" ->
                    /\ Abort(RetryError)
                    /\ wait_for_data_asset' = wait_for_data_asset
                 [] decision = "sleep" ->
                    /\ pc' = "wait_sleep"
                    /\ UNCHANGED <<wait_for_data_asset, attempt_number,
                                   idle_for, raised>>
    /\ UNCHANGED <<first_build, runs, retry_states,
                   job_settings, start_pipeline_response,
                   monitor_pipeline_response, input_data_name, default_name,
                   dd_name, data_asset_params, capture_result_response>>

\* The sleep between two attempts of _wait_for_data_asset.
WaitSleep ==
    /\ pc = "wait_sleep"
    /\ \E jitter \in Jitter :
        idle_for' = idle_for + sleep_for(attempt_number, jitter)
    /\ attempt_number' = attempt_number + 1
    /\ pc' = retry_resumes_at("wait_until_ready")
    /\ UNCHANGED <<first_build, runs, retry_states,
                   job_settings, calls, start_pipeline_response,
                   monitor_pipeline_response, input_data_name, default_name,
                   dd_name, data_asset_params, capture_result_response,
                   wait_for_data_asset, raised>>

\* self.client.data_assets.update_permissions(...), the last statement.
UpdatePermissions ==
    /\ pc = "update_permissions"
    /\ \E ending \in Endings :
        LET resp == Answer(ending, None)
        IN
        /\ Issue("update_permissions", resp)
        /\ IF resp.exc = NoExc
              THEN /\ pc' = "finished"
                   /\ UNCHANGED <<attempt_number, idle_for, raised>>
              ELSE Abort(resp.exc)
    /\ UNCHANGED <<first_build, runs, retry_states,
                   job_settings, start_pipeline_response,
                   monitor_pipeline_response, input_data_name, default_name,
                   dd_name, data_asset_params, capture_result_response,
                   wait_for_data_asset>>

Next ==
    \/ RunCapsule
    \/ MonitorPipeline
    \/ MonitorSleep
    \/ BuildDataAssetParams
    \/ GetInputDataName
    \/ ListComputationResults
    \/ GetResultFileDownloadUrl
    \/ DownloadDataDescription
    \/ CreateDataAsset
    \/ WaitForDataAsset
    \/ WaitSleep
    \/ UpdatePermissions

Spec == Init /\ [][Next]_vars

\* run_job when every remote call and every sleep eventually returns: a step
\* that can be taken is eventually taken.
FairSpec == Spec /\ WF_vars(Next)

-----------------------------------------------------------------------------
(* _build_data_asset_params called twice on one job object *)

\* A job object whose pipeline run completed, about to build the create
\* request: the state run_job is in before its call of
\* _build_data_asset_params.  The settings are those of Init with which
\* run_job gets there: the attribute capture_settings is present and not
\* None, holding an object of the shape job.py reads or a
\* models.CapturedDataAssetParams.
InitBuild ==
    /\ \E data_assets \in InputAssetLists :
        \/ \E name \in ExplicitNames, mount \in Mounts,
              target_set \in BOOLEAN, suffix \in Suffixes :
                job_settings =
                    Settings(data_assets,
                             CaptureSettings(name, mount, Target(target_set), suffix))
        \/ \E name \in {None, <<"run-42">>} :
                job_settings =
                    Settings(
                        data_assets,
                        CapturedDataAssetParams(name, None, Target(FALSE),
                                                <<"processed">>))
    /\ pc = "build_data_asset_params"
    /\ calls = <<>>
    /\ attempt_number = 0
    /\ idle_for = 0
    /\ start_pipeline_response = [id |-> ComputationId, state |-> "running"]
    /\ monitor_pipeline_response = [id |-> ComputationId, state |-> "completed"]
    /\ input_data_name = None
    /\ default_name = None
    /\ dd_name = None
    /\ data_asset_params = None
    /\ capture_result_response = None
    /\ wait_for_data_asset = None
    /\ raised = NoExc
    /\ first_build = None
    /\ runs = <<>>
    /\ retry_states = <<>>

\* The outcome of the _build_data_asset_params call that just ended: what it
\* returned or what it raised.
BuildOutcome ==
    IF pc = "raised" THEN Raise(raised) ELSE Return(data_asset_params)

\* The first call has ended; its outcome is kept and
\* _build_data_asset_params(monitor_pipeline_response) is called again on
\* the same object with the same argument.
BuildAgain ==
    /\ first_build = None
    /\ pc \in {"create_data_asset", "raised"}
    /\ first_build' = BuildOutcome
    /\ pc' = "build_data_asset_params"
    /\ raised' = NoExc
    /\ data_asset_params' = None
    /\ input_data_name' = None
    /\ default_name' = None
    /\ dd_name' = None
    /\ UNCHANGED <<runs, retry_states, job_settings, calls, attempt_number,
                   idle_for, start_pipeline_response, monitor_pipeline_response,
                   capture_result_response, wait_for_data_asset>>

NextBuild ==
    \/ BuildDataAssetParams
    \/ GetInputDataName
    \/ ListComputationResults
    \/ GetResultFileDownloadUrl
    \/ DownloadDataDescription
    \/ BuildAgain

SpecBuild == InitBuild /\ [][NextBuild]_vars

-----------------------------------------------------------------------------
(* Two job objects running run_job concurrently *)

\* The job objects, each run by a thread of its own.
Runs == {1, 2}

\* The RetryCallState a call of a decorated function starts with.
RetryCallState == [attempt_number |-> 1, idle_for |-> 0]

\* No call of a decorated function is in progress.
NoRetryState == [attempt_number |-> 0, idle_for |-> 0]

retry_state_of_function(run) == 1

\* The retry state a run's call of a decorated function works on: the
\* RetryCallState is a local of that call, one for each call.
retry_state_of(run) == run

\* Both objects are built from the same settings (a capture under an
\* explicit name) and neither has started.
InitTwo ==
    /\ job_settings =
            Settings(<<>>, CaptureSettings(<<"run-42">>, None, Target(FALSE),
                                           <<"processed">>))
    /\ runs = [r \in Runs |->
                [pc |-> "run_capsule", polls |-> 0, slept |-> 0,
                 monitor_used_all |-> FALSE, raised |-> NoExc]]
    /\ retry_states = [r \in Runs |-> NoRetryState]
    /\ pc = "run_capsule"
    /\ calls = <<>>
    /\ attempt_number = 0
    /\ idle_for = 0
    /\ start_pipeline_response = None
    /\ monitor_pipeline_response = None
    /\ input_data_name = None
    /\ default_name = None
    /\ dd_name = None
    /\ data_asset_params = None
    /\ capture_result_response = None
    /\ wait_for_data_asset = None
    /\ raised = NoExc
    /\ first_build = None

\* What run_job of one object leaves alone: the state of the single run.
SingleRunVars ==
    <<job_settings, pc, calls, attempt_number, idle_for,
      start_pipeline_response, monitor_pipeline_response, input_data_name,
      default_name, dd_name, data_asset_params, capture_result_response,
      wait_for_data_asset, raised, first_build>>

\* An exception leaves run_job of run r.
TwoAbort(r, e) ==
    /\ runs' = [runs EXCEPT ![r].pc = "raised", ![r].raised = e, ![r].slept = 0]
    /\ retry_states' = [retry_states EXCEPT ![retry_state_of(r)] = NoRetryState]

\* A call of run r that is not retried ends: it returns and the run goes on
\* at next_pc, or it raises.
TwoPlainCall(r, next_pc, begins_retry) ==
    \E ending \in Endings :
        IF ending = NoExc
            THEN /\ runs' = [runs EXCEPT ![r].pc = next_pc, ![r].polls = 0,
                                         ![r].slept = 0]
                 /\ retry_states' =
                        IF begins_retry
                            THEN [retry_states EXCEPT
                                    ![retry_state_of(r)] = RetryCallState]
                            ELSE retry_states
            ELSE TwoAbort(r, ending)

\* run_capsule of run r, then _monitor_pipeline is entered.
TwoRunCapsule(r) ==
    /\ runs[r].pc = "run_capsule"
    /\ TwoPlainCall(r, "wait_until_completed", TRUE)
    /\ UNCHANGED SingleRunVars

\* One attempt of _monitor_pipeline or of _wait_for_data_asset by run r.
TwoPoll(r) ==
    /\ runs[r].pc \in {"wait_until_completed", "wait_until_ready"}
    /\ \E ending \in Endings, final \in BOOLEAN :
        LET call == runs[r].pc
            st == IF call = "wait_until_completed"
                    THEN (IF final THEN "completed" ELSE "failed")
                    ELSE (IF final THEN "ready" ELSE "failed")
            resp == Answer(ending, [id |-> ComputationId, state |-> st])
            out == IF call = "wait_until_completed"
                     THEN monitor_pipeline_body(resp)
                     ELSE wait_for_data_asset_body(resp)
            n == retry_states[retry_state_of(r)].attempt_number
            decision == RetryDecision(out, n)
            polls == runs[r].polls + 1
        IN  CASE decision = "return" ->
                 /\ runs' =
                      IF call = "wait_until_ready"
                        THEN [runs EXCEPT ![r].pc = "update_permissions",
                                          ![r].polls = polls, ![r].slept = 0]
                        ELSE [runs EXCEPT
                                ![r].pc = IF capture_requested(job_settings)
                                            THEN "build_data_asset_params"
                                            ELSE "finished",
                                ![r].polls = polls, ![r].slept = 0,
                                ![r].monitor_used_all = (polls = MaxAttempts)]
                 /\ retry_states' =
                      [retry_states EXCEPT ![retry_state_of(r)] = NoRetryState]
              [] decision = "reraise" ->
                 /\ runs' = [runs EXCEPT ![r].pc = "raised",
                                         ![r].raised = out.exc,
                                         ![r].polls = polls, ![r].slept = 0]
                 /\ retry_states' =
                      [retry_states EXCEPT ![retry_state_of(r)] = NoRetryState]
              [] decision = "retry_error" ->
                 /\ runs' = [runs EXCEPT ![r].pc = "raised",
                                         ![r].raised = RetryError,
                                         ![r].polls = polls, ![r].slept = 0]
                 /\ retry_states' =
                      [retry_states EXCEPT ![retry_state_of(r)] = NoRetryState]
              [] decision = "sleep" ->
                 /\ runs' = [runs EXCEPT ![r].pc = SleepAfter(call),
                                         ![r].polls = polls]
                 /\ retry_states' = retry_states
    /\ UNCHANGED SingleRunVars

\* The sleep of run r between two attempts.
TwoSleep(r) ==
    /\ runs[r].pc \in {"monitor_sleep", "wait_sleep"}
    /\ \E jitter \in Jitter :
        LET key == retry_state_of(r)
            sleep == sleep_for(retry_states[key].attempt_number, jitter)
        IN  /\ retry_states' =
                  [retry_states EXCEPT
                      ![key].attempt_number = @ + 1,
                      ![key].idle_for = @ + sleep]
            /\ runs' =
                  [runs EXCEPT
                      ![r].pc = retry_resumes_at(
                                    IF runs[r].pc = "monitor_sleep"
                                        THEN "wait_until_completed"
                                        ELSE "wait_until_ready"),
                      ![r].slept = @ + sleep]
    /\ UNCHANGED SingleRunVars

\* _build_data_asset_params of run r: the explicit name, no call.
TwoBuildDataAssetParams(r) ==
    /\ runs[r].pc = "build_data_asset_params"
    /\ uses_explicit_name(job_settings)
    /\ runs' = [runs EXCEPT ![r].pc = "create_data_asset"]
    /\ UNCHANGED retry_states
    /\ UNCHANGED SingleRunVars

\* create_data_asset of run r, then _wait_for_data_asset is entered.
TwoCreateDataAsset(r) ==
    /\ runs[r].pc = "create_data_asset"
    /\ TwoPlainCall(r, "wait_until_ready", TRUE)
    /\ UNCHANGED SingleRunVars

\* update_permissions of run r, the last statement.
TwoUpdatePermissions(r) ==
    /\ runs[r].pc = "update_permissions"
    /\ TwoPlainCall(r, "finished", FALSE)
    /\ UNCHANGED SingleRunVars

NextTwo ==
    \/ \E r \in Runs : TwoRunCapsule(r)
    \/ \E r \in Runs : TwoPoll(r)
    \/ \E r \in Runs : TwoSleep(r)
    \/ \E r \in Runs : TwoBuildDataAssetParams(r)
    \/ \E r \in Runs : TwoCreateDataAsset(r)
    \/ \E r \in Runs : TwoUpdatePermissions(r)

SpecTwo == InitTwo /\ [][NextTwo]_vars

-----------------------------------------------------------------------------
(* Vocabulary of the properties *)

PollingCalls == {"wait_until_completed", "wait_until_ready"}

\* The capture settings run_job finds in its settings: None as well when
\* the settings have no attribute capture_settings.
CaptureSettingsOf ==
    IF HasAttr(job_settings, "capture_settings")
        THEN job_settings.capture_settings
        ELSE None

AssetCalls ==
    {"get_data_asset", "list_computation_results",
     "get_result_file_download_url", "urlopen", "create_data_asset",
     "wait_until_ready", "update_permissions"}

RateLimited == Exc("HTTPError", TooManyStatus)

\* The positions of the log holding a call of this name, and their number.
Indices(call) == {i \in 1 .. Len(calls) : calls[i].call = call}

Count(call) == Cardinality(Indices(call))

LastCall == calls[Len(calls)]

Terminated == pc \in {"finished", "raised"}

SleepOf(call) ==
    IF call = "wait_until_completed" THEN "monitor_sleep" ELSE "wait_sleep"

\* What the wrapped polling function handed back to run_job.
ReturnedFrom(call) ==
    IF call = "wait_until_completed"
        THEN monitor_pipeline_response
        ELSE wait_for_data_asset

-----------------------------------------------------------------------------
(* C1 *)

\* C1: in each retry-wrapped polling call, attempts follow one another only
\* after a rate-limit signal; a rate-limited attempt before the 7th is
\* followed by a sleep and a further attempt, a success after k <= 6
\* rate-limited attempts is handed back to run_job (at most 7 attempts made),
\* and a rate-limited 7th attempt ends the call with RetryError: there is no
\* 8th attempt.
C1_RetryCap ==
    calls # <<>> /\ LastCall.call \in PollingCalls =>
        LET call == LastCall.call
            n == Count(call)
        IN  /\ n <= 7
            /\ \A i \in Indices(call) : i < Len(calls) => calls[i].exc = RateLimited
            /\ LastCall.exc = RateLimited /\ n < 7 =>
                    /\ pc \in {SleepOf(call), call}
                    /\ raised = NoExc
            /\ LastCall.exc = RateLimited /\ n >= 7 =>
                    /\ pc = "raised"
                    /\ raised = RetryError
            /\ LastCall.exc = NoExc /\ LastCall.state # "failed" =>
                    /\ pc \notin {SleepOf(call), call}
                    /\ raised \in {NoExc, AttributeError}
                    /\ ReturnedFrom(call) # None
                    /\ ReturnedFrom(call).state = LastCall.state

\* The job wait succeeded on its 7th attempt, after 6 rate-limit signals, and
\* the asset wait was rate-limited 7 times and gave up.
C1_Witness ==
    /\ Count("wait_until_completed") = 7
    /\ monitor_pipeline_response # None
    /\ Count("wait_until_ready") = 7
    /\ raised = RetryError

-----------------------------------------------------------------------------
(* C2 *)

\* The waits tenacity computes for min=8, max=32, multiplier=1: the wait
\* after the n-th attempt is 2^(n-1) raised to the floor 8.
BackoffSchedule == <<8, 8, 8, 8, 16, 32>>

\* C2 as stated: three rate-limited attempts of the job polling are followed
\* by at least 8+16+32 = 56 time-units of backoff before the 4th attempt.
C2_Original ==
    pc = "wait_until_completed" /\ attempt_number = 4 =>
        idle_for >= 56 * TicksPerSecond

\* C2, amended: the wait after the n-th rate-limited attempt of the job
\* polling is BackoffSchedule[n] (8, 8, 8, 8, 16, 32) plus a jitter from 0 to
\* 5, so the backoff slept before the 4th attempt is at least 8+8+8 = 24 and
\* at most 24+15, and a 4th attempt that succeeds is handed back to run_job.
C2_Backoff ==
    /\ [](pc = "wait_until_completed" /\ attempt_number = 4 =>
            /\ idle_for >= 24 * TicksPerSecond
            /\ idle_for < (24 + 15) * TicksPerSecond)
    /\ [][pc = "monitor_sleep" =>
            /\ idle_for' - idle_for >=
                    BackoffSchedule[attempt_number] * TicksPerSecond
            /\ idle_for' - idle_for <
                    (BackoffSchedule[attempt_number] + JitterMax)
                        * TicksPerSecond]_vars
    /\ [](/\ Count("wait_until_completed") = 4
          /\ calls[Len(calls)] = [call |-> "wait_until_completed", exc |-> NoExc,
                                  state |-> "completed"]
          => /\ monitor_pipeline_response # None
             /\ raised \in {NoExc, AttributeError})

\* Three rate-limit signals were each followed by a wait of exactly 8 (no
\* jitter), and the 4th attempt of the job polling is about to be made.
C2_Witness ==
    /\ pc = "wait_until_completed"
    /\ attempt_number = 4
    /\ idle_for = 24 * TicksPerSecond
    /\ \A i \in 1 .. 3 : calls[i + 1].exc = RateLimited

-----------------------------------------------------------------------------
(* C3 *)

\* C3 as stated: a run without CaptureSettings that has ended made exactly
\* one submit call, exactly one monitor-wait call and no asset-related call.
C3_Original ==
    CaptureSettingsOf = None /\ Terminated =>
        /\ Count("run_capsule") = 1
        /\ Count("wait_until_completed") = 1
        /\ \A c \in AssetCalls : Count(c) = 0

\* C3, amended: a run without CaptureSettings makes exactly one submit call
\* and no asset-related call; it makes no monitor-wait call when the submit
\* call raised, and otherwise one monitor-wait call more than the number of
\* rate-limit signals the wait received, but never more than 7 (exactly one
\* when the first wait is not rate-limited).
C3_NoCapture ==
    CaptureSettingsOf = None =>
        /\ \A c \in AssetCalls : Count(c) = 0
        /\ Count("run_capsule") = IF pc = "run_capsule" THEN 0 ELSE 1
        /\ Count("wait_until_completed") <= 7
        /\ Terminated =>
            LET signals == {i \in Indices("wait_until_completed") :
                                calls[i].exc = RateLimited}
            IN  IF calls[1].exc # NoExc
                    THEN Count("wait_until_completed") = 0
                    ELSE Count("wait_until_completed") =
                            IF Cardinality(signals) + 1 <= 7
                                THEN Cardinality(signals) + 1
                                ELSE 7

\* A run without CaptureSettings finished after 2 rate-limit signals: 3
\* monitor-wait calls.
C3_Witness ==
    /\ CaptureSettingsOf = None
    /\ pc = "finished"
    /\ Count("run_capsule") = 1
    /\ Count("wait_until_completed") = 3

-----------------------------------------------------------------------------
(* C4 *)

MutatingCalls == {"run_capsule", "create_data_asset", "update_permissions"}

\* C4: the job is submitted exactly once, the asset is created at most once
\* and only with CaptureSettings, the permissions are assigned at most once;
\* a mutating call that raises (a rate-limit signal included) is the last
\* call of the run and its error leaves run_job as it is: only the polling
\* waits are ever issued again.
C4_MutatingOnce ==
    /\ Count("run_capsule") = IF pc = "run_capsule" THEN 0 ELSE 1
    /\ Count("create_data_asset") <= 1
    /\ Count("update_permissions") <= 1
    /\ Count("create_data_asset") = 1 => CaptureSettingsOf # None
    /\ \A i \in 1 .. Len(calls) :
        calls[i].call \in MutatingCalls /\ calls[i].exc # NoExc =>
            /\ i = Len(calls)
            /\ pc = "raised"
            /\ raised = calls[i].exc
    /\ \A i \in 1 .. Len(calls) - 1 :
        calls[i].call = calls[i + 1].call => calls[i].call \in PollingCalls

\* Both polling waits were retried after rate-limit signals, and the
\* permission call was then rate-limited itself.
C4_Witness ==
    /\ Count("wait_until_completed") >= 2
    /\ Count("wait_until_ready") >= 2
    /\ Count("create_data_asset") = 1
    /\ LastCall.call = "update_permissions"
    /\ LastCall.exc = RateLimited
    /\ raised = RateLimited

-----------------------------------------------------------------------------
(* C5 *)

\* C5: the permission call is issued only when the asset wait has handed
\* back the asset in state ready: the call logged right before it is a
\* wait_until_ready that reported ready.  After a wait that reported failed,
\* or that raised (retry exhaustion included), no permission call follows.
C5_PermissionsAfterReady ==
    /\ \A i \in Indices("update_permissions") :
        /\ i > 1
        /\ calls[i - 1].call = "wait_until_ready"
        /\ calls[i - 1].exc = NoExc
        /\ calls[i - 1].state = "ready"
        /\ wait_for_data_asset # None
        /\ wait_for_data_asset.state = "ready"
    /\ pc = "update_permissions" =>
        /\ wait_for_data_asset # None
        /\ wait_for_data_asset.state = "ready"
    /\ \A i \in Indices("wait_until_ready") :
        calls[i].state = "failed" \/ calls[i].exc \notin {NoExc, RateLimited} =>
            /\ i = Len(calls)
            /\ pc = "raised"
    /\ raised = RetryError => Count("update_permissions") = 0

\* The asset wait reported ready after a rate-limit signal and the
\* permission call was issued.
C5_Witness ==
    /\ Count("update_permissions") = 1
    /\ Count("wait_until_ready") = 2
    /\ pc = "finished"

-----------------------------------------------------------------------------
(* C6 *)

\* C6: a monitor wait that reports the job failed, on the first attempt or
\* after rate-limited ones, is the last call of the run: run_job raises the
\* pipeline-run-failed error, no further monitor wait and no asset-related
\* call is made.
C6_JobFailed ==
    /\ \A i \in Indices("wait_until_completed") :
        calls[i].exc = NoExc /\ calls[i].state = "failed" =>
            /\ i = Len(calls)
            /\ pc = "raised"
            /\ raised = PipelineRunFailed
            /\ \A c \in AssetCalls : Count(c) = 0
    /\ raised = PipelineRunFailed =>
        /\ LastCall.call = "wait_until_completed"
        /\ LastCall.state = "failed"

\* The job was reported failed on the 3rd attempt, after 2 rate-limit
\* signals, for settings that ask for a capture.
C6_Witness ==
    /\ raised = PipelineRunFailed
    /\ Count("wait_until_completed") = 3
    /\ CaptureSettingsOf # None

-----------------------------------------------------------------------------
(* C7 *)

\* C7: a polling wait (job or asset) that raises an error other than the
\* rate-limit signal, on the first or on a later attempt, is the last call
\* of the run: that same error leaves run_job, with no sleep and no further
\* attempt.
C7_OtherErrors ==
    \A i \in 1 .. Len(calls) :
        /\ calls[i].call \in PollingCalls
        /\ calls[i].exc \notin {NoExc, RateLimited}
        => /\ i = Len(calls)
           /\ pc = "raised"
           /\ raised = calls[i].exc

\* The asset wait raised an HTTP error with status 500 on its 2nd attempt.
C7_Witness ==
    /\ calls # <<>>
    /\ LastCall.call = "wait_until_ready"
    /\ LastCall.exc = Exc("HTTPError", 500)
    /\ Count("wait_until_ready") = 2
    /\ raised = Exc("HTTPError", 500)

-----------------------------------------------------------------------------
(* C8 *)

NamingCalls ==
    {"get_data_asset", "list_computation_results",
     "get_result_file_download_url", "urlopen"}

\* C8: with an explicit name in the CaptureSettings, the create request
\* carries that name as it is, whatever input data assets the run request
\* references; the descriptor file and the input data asset are not even
\* looked up.
C8_ExplicitName ==
    /\ CaptureSettingsOf # None
    /\ CaptureSettingsOf.name # None
    => /\ \A c \in NamingCalls : Count(c) = 0
       /\ pc = "create_data_asset" \/ Count("create_data_asset") = 1 =>
            data_asset_params.name = CaptureSettingsOf.name
       /\ pc \notin {"get_input_data_name", "list_computation_results",
                     "get_result_file_download_url", "urlopen"}

\* The asset was created under the explicit name "run-42" for a run request
\* that references input data assets.
C8_Witness ==
    /\ CaptureSettingsOf # None
    /\ CaptureSettingsOf.name = <<"run-42">>
    /\ job_settings.run_params.data_assets # <<>>
    /\ Count("create_data_asset") = 1
    /\ data_asset_params.name = <<"run-42">>

-----------------------------------------------------------------------------
(* C9 *)

\* Descriptor names that do not follow the derived-asset naming pattern.
MismatchedNames ==
    {<<"not", "matching", "pattern">>, <<"ecephys", "2024-01-01", "10-00-00">>,
     <<"">>}

Timestamps == {<<"2024-01-01", "10-00-00">>, <<"2024-01-02", "11-00-00">>}

\* C9: with no explicit name and a descriptor name that fails the pattern
\* check, the name of the create request is
\* "{input_asset_name}_{suffix}_{timestamp}" with the name of the first input
\* data asset; resolution raises only when the run request references no
\* input data asset (the cannot-construct error), never because of the
\* mismatch alone.
C9_MismatchFallsThrough ==
    /\ CaptureSettingsOf # None
    /\ dd_name \in MismatchedNames
    => LET data_assets == job_settings.run_params.data_assets
           suffix == CaptureSettingsOf.process_name_suffix
       IN  /\ CaptureSettingsOf.name = None
           /\ ~re_match_DERIVED(dd_name)
           /\ pc \in {"create_data_asset", "raised"}
           /\ pc = "create_data_asset" =>
                /\ data_assets # <<>>
                /\ \E ts \in Timestamps :
                    data_asset_params.name =
                        RemoteAssetName(data_assets[1].id)
                            \o (IF suffix = None THEN <<"None">> ELSE suffix)
                            \o ts
           /\ pc = "raised" =>
                /\ data_assets = <<>>
                /\ raised = UnableToConstructName

\* The descriptor holds "not_matching_pattern", the input data asset is
\* named "raw-ecephys", the suffix is "processed" and the clock shows
\* 2024-01-01T10:00:00Z: the create request is about to be issued under the
\* default name.
C9_Witness ==
    /\ pc = "create_data_asset"
    /\ dd_name = <<"not", "matching", "pattern">>
    /\ input_data_name = <<"raw-ecephys">>
    /\ data_asset_params.name =
            <<"raw-ecephys", "processed", "2024-01-01", "10-00-00">>

-----------------------------------------------------------------------------
(* C10 *)

\* Descriptor names that follow the derived-asset naming pattern.
MatchingNames ==
    {<<"ecephys", "2024-01-01", "10-00-00", "sorted", "2024-01-02", "11-00-00">>,
     <<"ecephys", "2024-01-01", "10-00-00", "sorted", "2024-01-02", "11-00-00abc", "v2">>}

\* C10: with no explicit name and no input data asset referenced, a
\* descriptor lookup that yields nothing usable (the file is not listed, or
\* its name is absent or fails the pattern) makes run_job raise the
\* cannot-construct-name error, and no create, wait-until-ready or
\* permission call is issued; a create request is only ever built from a
\* descriptor name that follows the pattern.
C10_CannotConstruct ==
    /\ CaptureSettingsOf # None
    /\ CaptureSettingsOf.name = None
    /\ job_settings.run_params.data_assets = <<>>
    => /\ calls # <<>> /\ LastCall.call = "list_computation_results"
            /\ LastCall.exc = NoExc /\ pc # "get_result_file_download_url"
            => pc = "raised" /\ raised = UnableToConstructName
       /\ calls # <<>> /\ LastCall.call = "urlopen" /\ LastCall.exc = NoExc
            /\ dd_name \in {None} \cup MismatchedNames
            => pc = "raised" /\ raised = UnableToConstructName
       /\ raised = UnableToConstructName =>
            /\ pc = "raised"
            /\ Count("create_data_asset") = 0
            /\ Count("wait_until_ready") = 0
            /\ Count("update_permissions") = 0
       /\ pc = "create_data_asset" \/ Count("create_data_asset") = 1 =>
            data_asset_params.name \in MatchingNames

\* No input data asset, a descriptor name that fails the pattern: the run
\* ended with the cannot-construct-name error before any create call.
C10_Witness ==
    /\ CaptureSettingsOf # None
    /\ job_settings.run_params.data_assets = <<>>
    /\ dd_name = <<"not", "matching", "pattern">>
    /\ raised = UnableToConstructName
    /\ Count("create_data_asset") = 0

-----------------------------------------------------------------------------
(* C11 *)

\* C11: the name carried by an issued create request is never empty.
C11_NonEmptyName ==
    pc = "create_data_asset" \/ Count("create_data_asset") >= 1 =>
        data_asset_params.name # <<"">>

-----------------------------------------------------------------------------
(* C12 *)

\* Both calls of _build_data_asset_params have ended.
BuiltTwice == first_build # None /\ pc \in {"create_data_asset", "raised"}

\* C12 as stated: building the create request twice from the same settings
\* and the same completed job gives the same outcome both times, and
\* building issues no remote call.
C12_Original ==
    BuiltTwice => calls = <<>> /\ first_build = BuildOutcome

\* C12: with an explicit name in the capture settings, building the create
\* request twice from the same settings and the same completed job returns
\* the same request both times and issues no remote call.  Without an
\* explicit name the build resolves the name itself.  When the capture
\* settings carry data_description_file_name every build issues at least
\* one remote lookup, and two builds that both return agree as soon as they
\* resolved the same name.  When they do not carry it (a
\* models.CapturedDataAssetParams) no build returns: each issues the lookup
\* of the first input data asset when there is one and nothing else, and
\* without an input data asset both raise AttributeError with no remote
\* call.
C12_BuildTwice ==
    BuiltTwice =>
        IF CaptureSettingsOf.name # None
            THEN /\ calls = <<>>
                 /\ pc = "create_data_asset"
                 /\ first_build = Return(data_asset_params)
                 /\ data_asset_params.name = CaptureSettingsOf.name
            ELSE IF HasAttr(CaptureSettingsOf, "data_description_file_name")
            THEN /\ Len(calls) >= 2
                 /\ \A i \in 1 .. Len(calls) : calls[i].call \in NamingCalls
                 /\ (/\ first_build.exc = NoExc
                     /\ pc = "create_data_asset"
                     /\ first_build.ret.name = data_asset_params.name)
                        => first_build.ret = data_asset_params
            ELSE /\ pc = "raised"
                 /\ first_build.exc # NoExc
                 /\ \A i \in 1 .. Len(calls) : calls[i].call = "get_data_asset"
                 /\ IF job_settings.run_params.data_assets = <<>>
                       THEN /\ calls = <<>>
                            /\ first_build = Raise(AttributeError)
                            /\ raised = AttributeError
                       ELSE Len(calls) = 2

C12_Witness ==
    /\ BuiltTwice
    /\ pc = "create_data_asset"
    /\ CaptureSettingsOf.name = <<"run-42">>
    /\ CaptureSettingsOf.target # None
    /\ first_build.exc = NoExc
    /\ first_build.ret.target.aws.prefix = <<"run-42">>

-----------------------------------------------------------------------------
(* C13 *)

\* C13: in the create request, the mount is the mount of the CaptureSettings
\* when they set one and the resolved name otherwise; the target is null
\* when the CaptureSettings name no storage target, and otherwise keeps
\* their bucket and has the resolved name as prefix, whatever prefix they
\* supplied; the source is the id of the completed job.
C13_MountTargetSource ==
    data_asset_params # None =>
        LET cs == CaptureSettingsOf
            name == data_asset_params.name
        IN  /\ cs.mount # None => data_asset_params.mount = cs.mount
            /\ cs.mount = None => data_asset_params.mount = name
            /\ cs.target = None => data_asset_params.target = None
            /\ cs.target # None =>
                /\ data_asset_params.target.aws.bucket = cs.target.aws.bucket
                /\ data_asset_params.target.aws.prefix = name
            /\ monitor_pipeline_response.state = "completed"
            /\ data_asset_params.source.computation.id = monitor_pipeline_response.id
            /\ data_asset_params.source.computation.id = start_pipeline_response.id

C13_Witness ==
    /\ Count("create_data_asset") = 1
    /\ CaptureSettingsOf.name = None
    /\ CaptureSettingsOf.mount = None
    /\ CaptureSettingsOf.target # None
    /\ CaptureSettingsOf.target.aws.prefix # data_asset_params.name
    /\ data_asset_params.mount = data_asset_params.name
    /\ data_asset_params.target.aws.prefix = data_asset_params.name
    /\ data_asset_params.target.aws.bucket = "my-bucket"
    /\ data_asset_params.source.computation.id = ComputationId

-----------------------------------------------------------------------------
(* C14 *)

\* C14: the sources of the name are consulted in strict priority order:
\* the input data asset is looked up only after the descriptor file was
\* looked up, and with no explicit name and a descriptor name that matches
\* the pattern the create request carries the descriptor name.
C14_StrictPriority ==
    /\ \A i \in Indices("get_data_asset") :
        \E j \in 1 .. (i - 1) : calls[j].call = "list_computation_results"
    /\ (pc = "create_data_asset" /\ dd_name \in MatchingNames) =>
            data_asset_params.name = dd_name

-----------------------------------------------------------------------------
(* C15 *)

\* The step of run_job a remote call belongs to.
StepOf(call) ==
    CASE call = "run_capsule" -> 1
      [] call = "wait_until_completed" -> 2
      [] call \in NamingCalls -> 3
      [] call = "create_data_asset" -> 4
      [] call = "wait_until_ready" -> 5
      [] call = "update_permissions" -> 6

\* The steps that can directly follow a step.
StepsAfter(step) ==
    CASE step = 1 -> {2}
      [] step = 2 -> {3, 4}
      [] step = 3 -> {4}
      [] step = 4 -> {5}
      [] step = 5 -> {6}
      [] step = 6 -> {}

\* C15: the remote calls of a run are issued in the order submit, monitor
\* wait, name resolution, create, wait-until-ready, update-permissions: the
\* first call is the submit, no call of an earlier step follows a call of a
\* later one, and the first call of a step is issued only after the last
\* call of the step before returned without error -- for the monitor wait,
\* with a job in the terminal state Completed.
C15_CallOrder ==
    /\ calls # <<>> => calls[1].call = "run_capsule"
    /\ \A i \in 2 .. Len(calls) :
        LET a == calls[i - 1]
            b == calls[i]
        IN  \/ /\ StepOf(b.call) = StepOf(a.call)
               /\ StepOf(a.call) \in {2, 3, 5}
            \/ /\ StepOf(b.call) \in StepsAfter(StepOf(a.call))
               /\ a.exc = NoExc
               /\ a.call = "wait_until_completed" => a.state = "completed"

C15_Witness ==
    /\ Count("update_permissions") = 1
    /\ Count("wait_until_completed") = 2
    /\ Count("get_data_asset") = 1
    /\ Count("urlopen") = 1
    /\ Count("wait_until_ready") = 3

-----------------------------------------------------------------------------
(* C16 *)

\* The call at position i of the log ended in an error: it raised, or it
\* reported the terminal state Failed.
Errored(i) == calls[i].exc # NoExc \/ calls[i].state = "failed"

\* The call at position i is a rate-limited polling attempt that the retry
\* policy answers with another attempt.
Retried(i) ==
    /\ calls[i].call \in PollingCalls
    /\ calls[i].exc = RateLimited
    /\ \E k \in 1 .. (MaxAttempts - 1) :
        /\ i - k >= 0
        /\ \A j \in (i - k + 1) .. i : calls[j].call = calls[i].call
        /\ i - k >= 1 => calls[i - k].call # calls[i].call

\* C16: an error at any step aborts the rest of the run.  A call that ended
\* in an error and is not retried by the polling policy is the last remote
\* call of the run, and the run has ended with an error; a run that ended
\* with an error never takes another step; the run completes normally only
\* when the job wait returned a Completed job and, when a capture is
\* requested, the create, wait-until-ready and permission calls all
\* returned without error.
C16_ErrorsAbort ==
    /\ [](\A i \in 1 .. Len(calls) :
            Errored(i) /\ ~Retried(i) =>
                /\ i = Len(calls)
                /\ pc = "raised"
                /\ raised # NoExc)
    /\ []((pc = "raised") <=> (raised # NoExc))
    /\ [][pc # "raised" /\ pc # "finished"]_vars
    /\ [](pc = "finished" =>
            /\ \A i \in 1 .. Len(calls) : Errored(i) => Retried(i)
            /\ monitor_pipeline_response # None
            /\ monitor_pipeline_response.state = "completed"
            /\ IF CaptureSettingsOf # None
                  THEN /\ Count("create_data_asset") = 1
                       /\ capture_result_response # None
                       /\ wait_for_data_asset # None
                       /\ wait_for_data_asset.state = "ready"
                       /\ LastCall.call = "update_permissions"
                       /\ LastCall.exc = NoExc
                  ELSE /\ LastCall.call = "wait_until_completed"
                       /\ LastCall.exc = NoExc)

C16_Witness ==
    /\ pc = "raised"
    /\ raised = Exc("ConnectionError", 0)
    /\ LastCall.call = "get_result_file_download_url"
    /\ LastCall.exc = Exc("ConnectionError", 0)
    /\ Count("wait_until_completed") = 3
    /\ Count("create_data_asset") = 0

-----------------------------------------------------------------------------
(* C17 *)

\* An upper bound of the number of steps a retried call at this attempt can
\* still take: the attempt itself, and a sleep and an attempt for each
\* attempt that is left.
StepsOfPhase(is_sleeping) ==
    2 * (MaxAttempts - attempt_number) + (IF is_sleeping THEN 0 ELSE 1)

\* An upper bound of the number of steps the run can still take.
StepsLeft ==
    CASE pc \in {"finished", "raised"} -> 0
      [] pc = "update_permissions" -> 1
      [] pc = "wait_until_ready" -> 1 + StepsOfPhase(FALSE)
      [] pc = "wait_sleep" -> 1 + StepsOfPhase(TRUE)
      [] pc = "create_data_asset" -> 15
      [] pc = "urlopen" -> 16
      [] pc = "get_result_file_download_url" -> 17
      [] pc = "list_computation_results" -> 18
      [] pc = "get_input_data_name" -> 19
      [] pc = "build_data_asset_params" -> 20
      [] pc = "wait_until_completed" -> 20 + StepsOfPhase(FALSE)
      [] pc = "monitor_sleep" -> 20 + StepsOfPhase(TRUE)
      [] pc = "run_capsule" -> 34

\* C17: when every remote call and every backoff sleep eventually returns,
\* every run of run_job eventually ends, normally or with an error: the
\* number of steps left is bounded and decreases with every step, no
\* polling call goes beyond its 7th attempt, a run that has not ended can
\* always take a step, and every run reaches its end.
C17_Terminates ==
    /\ [](StepsLeft >= 0 /\ attempt_number <= MaxAttempts)
    /\ [][StepsLeft' < StepsLeft]_vars
    /\ [](~Terminated => ENABLED Next)
    /\ <>Terminated

C17_Witness ==
    /\ pc = "raised"
    /\ raised = RetryError
    /\ Count("wait_until_completed") = MaxAttempts
    /\ Count("wait_until_ready") = MaxAttempts
    /\ Count("urlopen") = 1

-----------------------------------------------------------------------------
(* C18 *)

\* sum_{k=0..i} min(32, 8 * 2^k), the bound the specification gives for the
\* backoff slept in one polling phase.
RECURSIVE BackoffBound(_)
BackoffBound(i) ==
    IF i < 0 THEN 0
    ELSE Min(MaxWait, MinWait * (2 ^ i)) + BackoffBound(i - 1)

\* C18: in each polling phase, whatever rate-limit signals arrive, the time
\* slept so far is at most sum_{i=0..6} min(32, 8 * 2^i) plus a jitter of at
\* most 5 for each wait made.
C18_BackoffBounded ==
    pc \in {"wait_until_completed", "monitor_sleep",
            "wait_until_ready", "wait_sleep"} =>
        /\ attempt_number >= 1
        /\ idle_for <= (BackoffBound(MaxAttempts - 1)
                            + JitterMax * (attempt_number - 1))
                        * TicksPerSecond

C18_Witness ==
    /\ pc = "wait_until_ready"
    /\ attempt_number = MaxAttempts
    /\ idle_for = 80 * TicksPerSecond
                    + (MaxAttempts - 1) * (JitterMax * TicksPerSecond - 1)
    /\ BackoffBound(MaxAttempts - 1) = 184

-----------------------------------------------------------------------------
(* C19 *)

\* The retry state the polling call of run r works on.
RetryStateOf(r) == retry_states[retry_state_of(r)]

\* C19: every call of a polling wait starts with a fresh attempt counter
\* and a fresh backoff schedule, and concurrent runs share neither.  In
\* each of two interleaved runs the attempt counter of the polling call in
\* progress counts the attempts this run made in this call only, the time it
\* accounts for is the time this run slept in this call only, the retry
\* limit is reported only after 7 attempts of this call, and each sleep
\* lasts what the schedule gives for the number of attempts this run made
\* in this call, plus a jitter below 5 -- whatever the monitor phase of the
\* same run or the other run consumed.
C19_FreshRetryState ==
    /\ [](\A r \in Runs :
            /\ runs[r].pc \in PollingCalls =>
                /\ RetryStateOf(r).attempt_number = runs[r].polls + 1
                /\ RetryStateOf(r).idle_for = runs[r].slept
            /\ runs[r].pc \in {"monitor_sleep", "wait_sleep"} =>
                /\ RetryStateOf(r).attempt_number = runs[r].polls
                /\ RetryStateOf(r).idle_for = runs[r].slept
            /\ runs[r].polls <= MaxAttempts
            /\ runs[r].raised = RetryError => runs[r].polls = MaxAttempts)
    /\ [][\A r \in Runs :
            (runs[r].pc \in {"monitor_sleep", "wait_sleep"}
                    /\ runs'[r] # runs[r]) =>
                /\ runs'[r].polls = runs[r].polls
                /\ runs'[r].slept - runs[r].slept
                        - BackoffSchedule[runs[r].polls] * TicksPerSecond
                            \in 0 .. (JitterMax * TicksPerSecond - 1)]_vars

C19_Witness ==
    /\ runs[1].monitor_used_all
    /\ runs[1].raised = RetryError
    /\ runs[1].polls = MaxAttempts
    /\ runs[2].pc = "monitor_sleep"
    /\ runs[2].polls = 2
    /\ RetryStateOf(2).attempt_number = 2
=============================================================================
